---- MODULE Spec2Model ----
(***************************************************************************)
(* A model of the XYZ Hub connector core:                                  *)
(*   - XYZLayer (modules/layer/layer.py): the partition registry           *)
(*     map_vlayer, the GeoPackage backing file, the constraint migration   *)
(*     _init_constraint run through Python's sqlite3 connection, the layer *)
(*     tree under the store's main group, and save / load_from_qnode.      *)
(*   - NetManager (modules/network/network.py): the requests it builds,    *)
(*     the properties it attaches to each reply, and the statistics timer. *)
(*                                                                         *)
(* Python strings that the code takes apart (replace, partition, join,     *)
(* the "in" test) are sequences of pieces; the string is the concatenation *)
(* of its pieces.  Python dicts are sequences of <<key, value>> pairs in   *)
(* insertion order, or functions when only lookup matters.  Python's None  *)
(* is the piece PyNone, which formats as "None" like str(None).            *)
(***************************************************************************)
EXTENDS Integers, Sequences, FiniteSets, TLC

VARIABLES
    \* ---- XYZLayer object (layer.py:45-56) ----
    conn_info,      \* self.conn_info
    meta,           \* self.meta : sequence of <<key, value>>
    tags,           \* self.tags : pieces of the tag string
    unique,         \* self.unique
    group_name,     \* self._group_name
    map_vlayer,     \* self.map_vlayer : geom_str -> sequence of vlayers
    qgroups,        \* self.qgroups : set of the keys present
    \* ---- environment of the store ----
    qnode,          \* the store's main group in the project layer tree
    tree_root,      \* the names of the groups under the project's tree root
    files,          \* the file system: fname -> sqlite database
    last,           \* the last operation run and how it ended
    \* ---- NetManager ----
    replies,        \* the replies issued, each with its request and properties
    timers,         \* QTimer.singleShot timers installed
    now,            \* the event loop's clock
    \* ---- paging controller driving load_features_iterate ----
    pager           \* the controller's position in a paginated sequence

store_vars == <<conn_info, meta, tags, unique, group_name, map_vlayer, qgroups,
                qnode, tree_root, files, last>>
net_vars == <<replies, timers, now>>
vars == <<conn_info, meta, tags, unique, group_name, map_vlayer, qgroups,
          qnode, tree_root, files, last, replies, timers, now, pager>>

----------------------------------------------------------------------------
(* Bounds of the model *)

\* add_ext_layer is called with idx in 0..MaxIdx
MaxIdx == 1
\* add_ext_layer is called while the layer tree holds fewer layers than this
MaxLayers == 3
\* a feature batch holds 1..MaxBatch features
MaxBatch == 2
\* a batch is written while the table's rows and the batch's are at most this
MaxRows == 3
\* a migration may be made to fail at its k-th statement, k in 1..FailPoints
FailPoints == 10

----------------------------------------------------------------------------
(* Python values *)

PyNone == "None"

\* bool(x) of a str-or-None value
Truthy(s) == s # PyNone /\ s # ""

Digit(d) ==
    CASE d = 0 -> "0" [] d = 1 -> "1" [] d = 2 -> "2" [] d = 3 -> "3"
      [] d = 4 -> "4" [] d = 5 -> "5" [] d = 6 -> "6" [] d = 7 -> "7"
      [] d = 8 -> "8" [] d = 9 -> "9"

RECURSIVE ToStr(_)
\* str(n) of a natural number
ToStr(n) == IF n < 10 THEN Digit(n) ELSE ToStr(n \div 10) \o Digit(n % 10)

RECURSIVE Concat(_)
\* the string a sequence of pieces stands for
Concat(ps) == IF ps = <<>> THEN "" ELSE Head(ps) \o Concat(Tail(ps))

\* s.replace(old, new) where old is one piece
Replace(ps, old, new) == [i \in 1..Len(ps) |-> IF ps[i] = old THEN new ELSE ps[i]]

\* sub in s, where sub is one piece
Contains(ps, sub) == \E i \in 1..Len(ps) : ps[i] = sub

\* s.partition(sep): (before, sep, after) at the first sep, (s, "", "") if none
Partition(ps, sep) ==
    IF Contains(ps, sep)
    THEN LET i == CHOOSE j \in 1..Len(ps) :
                      ps[j] = sep /\ \A k \in 1..(j-1) : ps[k] # sep
         IN  <<SubSeq(ps, 1, i-1), <<sep>>, SubSeq(ps, i+1, Len(ps))>>
    ELSE <<ps, <<>>, <<>>>>

\* d.get(key, default) of a dict held as pairs
DictGet(d, key, default) ==
    IF \E i \in 1..Len(d) : d[i][1] = key
    THEN d[CHOOSE i \in 1..Len(d) : d[i][1] = key][2]
    ELSE default

RECURSIVE JsonDumps(_)
\* json.dumps of a dict of strings: the pieces of  k:v,k:v,...
JsonDumps(d) ==
    IF d = <<>> THEN <<>>
    ELSE <<Head(d)[1], ":", Head(d)[2]>>
         \o (IF Len(d) > 1 THEN <<",">> ELSE <<>>) \o JsonDumps(Tail(d))

RECURSIVE JsonLoads(_)
\* json.loads of what JsonDumps wrote
JsonLoads(ps) ==
    IF Len(ps) < 3 THEN <<>>
    ELSE <<<<ps[1], ps[3]>>>> \o JsonLoads(SubSeq(ps, 5, Len(ps)))

----------------------------------------------------------------------------
(* QGIS: geometry types (QgsWkbTypes, the memory provider) *)

\* The wkb type of the memory layer QgsVectorLayer("<geom>?crs=..", name, "memory"):
\* the provider reads the URI path; "none" in any case is a table without
\* geometry, a name QgsWkbTypes.parseType does not know is Unknown.
MemoryLayerWkbType(geom_str) ==
    IF geom_str = PyNone THEN "NoGeometry"
    ELSE IF geom_str \in {"Point", "LineString", "Polygon"} THEN geom_str
    ELSE "Unknown"

\* QgsWkbTypes.displayString(wkbType): the type's own name, never empty
displayString(wkb) == wkb

\* QgsWkbTypes.parseType(str)
parseType(s) ==
    IF s \in {"Point", "LineString", "Polygon", "NoGeometry"} THEN s ELSE "Unknown"

\* QgsWkbTypes.geometryDisplayString(QgsWkbTypes.geometryType(wkb))
geometryDisplayString(wkb) ==
    CASE wkb = "Point" -> "Point"
      [] wkb = "LineString" -> "Line"
      [] wkb = "Polygon" -> "Polygon"
      [] wkb = "NoGeometry" -> "No geometry"
      [] OTHER -> "Unknown geometry"

----------------------------------------------------------------------------
(* XYZLayer: names (layer.py:40-42, 114-157) *)

NO_GEOM == "No geometry"

\* GEOM_ORDER.get(geom): the group's position, -1 for None
GEOM_ORDER(geom) ==
    CASE geom = "Point" -> 0
      [] geom = "Line" -> 1
      [] geom = "Polygon" -> 2
      [] geom = "Unknown geometry" -> 3
      [] geom = NO_GEOM -> 4
      [] OTHER -> -1

TagsSuffix(tg) == IF Len(tg) > 0 THEN "-(" \o Concat(tg) \o ")" ELSE ""

\* the idx argument left at its default None
NoIdx == -1

_make_group_name(m, tg, idx) ==
    IF idx = NoIdx
    THEN DictGet(m, "title", "") \o "-" \o DictGet(m, "id", "") \o TagsSuffix(tg)
    ELSE DictGet(m, "title", "") \o "-" \o DictGet(m, "id", "") \o TagsSuffix(tg)
         \o "-" \o ToStr(idx)

_group_geom_name(geom_str) ==
    IF Truthy(geom_str) THEN geometryDisplayString(parseType(geom_str)) ELSE NO_GEOM

_layer_name(m, tg, geom_str, idx) ==
    DictGet(m, "title", "") \o "-" \o DictGet(m, "id", "") \o TagsSuffix(tg)
    \o "-" \o geom_str \o "-" \o ToStr(idx)

_db_layer_name(geom_str, idx) == geom_str \o "_" \o ToStr(idx)

_layer_fname(m, tg, u) ==
    DictGet(m, "id", "") \o "_"
    \o (IF Len(tg) > 0 THEN Concat(Replace(tg, ",", "_")) ELSE "")
    \o "_" \o ToStr(u)

get_id(u) == u

DefaultExt == "gpkg"

\* utils.make_fixed_full_path(name, ext): one fixed path per name
make_fixed_full_path(name, ext) == name \o "." \o ext

has_layer(mv, geom_str, idx) ==
    geom_str \in DOMAIN mv /\ idx < Len(mv[geom_str])

\* get_layer(geom_str, idx): Python indexes from 0
get_layer(mv, geom_str, idx) == mv[geom_str][idx + 1]

\* the number of partitions registered for a kind
Count(mv, geom_str) == IF geom_str \in DOMAIN mv THEN Len(mv[geom_str]) ELSE 0

----------------------------------------------------------------------------
(* SQLite: a database is a function from table name to                      *)
(*   [sql  : the CREATE TABLE statement sqlite_master holds,                *)
(*    aux  : the other sqlite_master entries with this tbl_name, in order,  *)
(*    rows : the table's rows, each [xyz_id, val]]                          *)

DbRemove(db, name) == [n \in DOMAIN db \ {name} |-> db[n]]

DbPut(db, name, tbl) == (name :> tbl) @@ DbRemove(db, name)

\* CREATE TABLE name ( col , col , ... )
WellFormedCreate(s) ==
    /\ Len(s) >= 5
    /\ s[1] = "CREATE TABLE"
    /\ s[3] = "("
    /\ s[Len(s)] = ")"
    /\ \A i \in 4..(Len(s)-1) : s[i] \notin {"(", ")"}
    /\ \A i \in 4..(Len(s)-1) : (s[i] = ",") <=> ((i % 2) = 1)
    /\ (Len(s) % 2) = 1

\* the column definitions of a CREATE TABLE statement, in order
Columns(s) ==
    LET inner == SubSeq(s, 4, Len(s) - 1)
    IN  [i \in 1..((Len(inner) + 1) \div 2) |-> inner[2*i - 1]]

QGS_XYZ_ID == "xyz_id"

\* the discarded alternative of layer.py:250: the older duplicate is kept
SqlConstraintIgnore == QGS_XYZ_ID \o " TEXT UNIQUE ON CONFLICT IGNORE"

\* layer.py:249
SqlConstraint == QGS_XYZ_ID \o " TEXT UNIQUE ON CONFLICT REPLACE"

RECURSIVE FirstWord(_, _)
\* the text of s before its first blank, looked for from position i on: the
\* name a column definition begins with
FirstWord(s, i) ==
    IF i > Len(s) THEN s
    ELSE IF SubSeq(s, i, i) = " " THEN SubSeq(s, 1, i - 1)
    ELSE FirstWord(s, i + 1)

\* the column definition carries a UNIQUE constraint
HasUnique(col) ==
    \E i \in 1..(Len(col) - 5) : SubSeq(col, i, i + 5) = "UNIQUE"

\* The column definitions the writer and the migration put into tables; what
\* SQLite reads out of them is worked out once, with the operators above
KnownColumns ==
    {"fid INTEGER PRIMARY KEY AUTOINCREMENT NOT NULL", SqlConstraint,
     SqlConstraintIgnore}
    \cup {"geom " \o wkb : wkb \in {"Point", "LineString", "Polygon", "Unknown"}}

ColumnNames == [col \in KnownColumns |-> FirstWord(col, 1)]

UniqueColumns == {col \in KnownColumns : HasUnique(col)}

\* the name of the column a definition declares
ColumnName(col) ==
    IF col \in KnownColumns THEN ColumnNames[col] ELSE FirstWord(col, 1)

\* the column is one SQLite makes an index for by itself
IsUnique(col) ==
    IF col \in KnownColumns THEN col \in UniqueColumns ELSE HasUnique(col)

\* a statement that is NULL in the catalog: Python's None
SqlNull == <<PyNone>>

\* The sql of the catalog rows SQLite makes by itself with a table: one
\* sqlite_autoindex row per UNIQUE column, its sql NULL, right after the
\* table's row
AutoIndexSql(sql_create) ==
    [i \in 1..Cardinality({k \in 1..((Len(sql_create) - 3) \div 2) :
                             IsUnique(sql_create[2*k + 2])}) |-> SqlNull]

AuxNames(db) ==
    UNION {{db[n].aux[i].name : i \in 1..Len(db[n].aux)} : n \in DOMAIN db}

\* One statement run on a database: [ok, db].  A CREATE TABLE naming a column
\* twice is rejected ("duplicate column name").  A statement the engine rejects
\* (table exists, duplicate column name, no such table, syntax error) leaves
\* the database as it was.
ExecStatement(db, s) ==
    CASE s[1] = "CREATE TABLE" ->
           IF /\ WellFormedCreate(s)
              /\ s[2] \notin DOMAIN db
              /\ \A i, j \in 1..((Len(s) - 3) \div 2) :
                    i < j => ColumnName(s[2*i + 2]) # ColumnName(s[2*j + 2])
           THEN [ok |-> TRUE,
                 db |-> DbPut(db, s[2], [sql |-> s, aux |-> <<>>, rows |-> <<>>])]
           ELSE [ok |-> FALSE, db |-> db]
      [] s[1] = "DROP TABLE" ->
           IF s[2] \in DOMAIN db
           THEN [ok |-> TRUE, db |-> DbRemove(db, s[2])]
           ELSE [ok |-> FALSE, db |-> db]
      [] s[1] = "ALTER TABLE" ->
           IF s[2] \in DOMAIN db /\ s[4] \notin DOMAIN db /\ s[3] = "RENAME TO"
           THEN [ok |-> TRUE,
                 db |-> DbPut(DbRemove(db, s[2]), s[4],
                              [db[s[2]] EXCEPT !.sql = [@ EXCEPT ![2] = s[4]]])]
           ELSE [ok |-> FALSE, db |-> db]
      [] s[1] = "CREATE INDEX" ->
           IF s[4] \in DOMAIN db /\ s[2] \notin AuxNames(db)
           THEN [ok |-> TRUE,
                 db |-> [db EXCEPT ![s[4]].aux =
                            Append(@, [type |-> "index", name |-> s[2], sql |-> s])]]
           ELSE [ok |-> FALSE, db |-> db]
      [] s[1] \in {"PRAGMA foreign_keys = '0'", "PRAGMA foreign_keys = '1'",
                   "PRAGMA defer_foreign_keys = '1'",
                   "PRAGMA defer_foreign_keys = '0'"} ->
           [ok |-> TRUE, db |-> db]
      [] OTHER -> [ok |-> FALSE, db |-> db]

\* The conflict policy of the unique xyz_id column of a table: "NONE" if the
\* table has no such column
ConflictPolicy(tbl) ==
    IF Contains(Columns(tbl.sql), "xyz_id TEXT UNIQUE ON CONFLICT REPLACE")
    THEN "REPLACE"
    ELSE IF Contains(Columns(tbl.sql), "xyz_id TEXT UNIQUE ON CONFLICT IGNORE")
    THEN "IGNORE"
    ELSE "NONE"

\* INSERT of one row under the table's conflict policy
InsertRow(tbl, row) ==
    LET same(r) == r.xyz_id = row.xyz_id
        policy == ConflictPolicy(tbl)
    IN  IF policy = "REPLACE"
        THEN [tbl EXCEPT !.rows = Append(SelectSeq(@, LAMBDA r : ~same(r)), row)]
        ELSE IF policy = "IGNORE" /\ \E i \in 1..Len(tbl.rows) : same(tbl.rows[i])
        THEN tbl
        ELSE [tbl EXCEPT !.rows = Append(@, row)]

RECURSIVE InsertRows(_, _)
InsertRows(tbl, batch) ==
    IF batch = <<>> THEN tbl
    ELSE InsertRows(InsertRow(tbl, Head(batch)), Tail(batch))

----------------------------------------------------------------------------
(* Python's sqlite3 connection (isolation_level ""): DDL statements run in  *)
(* autocommit unless a transaction was opened with an explicit BEGIN;       *)
(* commit() ends the transaction; a connection dropped with a transaction   *)
(* open rolls it back.                                                      *)
(*   conn = [committed : what the file holds, work : what the connection    *)
(*           sees, in_txn : conn.in_transaction]                            *)

Connect(db) == [committed |-> db, work |-> db, in_txn |-> FALSE]

\* sqlite3.connect(fname) on the file system fs: a file that does not exist
\* is created, empty
sqlite3_connect(fs, fname) ==
    IF fname \in DOMAIN fs THEN fs
    ELSE (fname :> [n \in {} |-> <<>>]) @@ fs

\* cur.execute(s): [ok, conn]
Execute(conn, s) ==
    IF s[1] = "BEGIN TRANSACTION"
    THEN IF conn.in_txn
         THEN [ok |-> FALSE, conn |-> conn]
         ELSE [ok |-> TRUE, conn |-> [conn EXCEPT !.in_txn = TRUE]]
    ELSE CHOOSE out \in
           { IF r.ok
             THEN [ok |-> TRUE,
                   conn |-> [conn EXCEPT !.work = r.db,
                                         !.committed =
                                            IF conn.in_txn THEN @ ELSE r.db]]
             ELSE [ok |-> FALSE, conn |-> conn] :
             r \in {ExecStatement(conn.work, s)} } : TRUE

\* conn.commit()
Commit(conn) == [conn EXCEPT !.committed = conn.work, !.in_txn = FALSE]

----------------------------------------------------------------------------
(* QgsVectorFileWriter.writeAsVectorFormat of an empty memory layer         *)

WriterErrors == {"NoError", "ErrCreateDataSource", "ErrCreateLayer"}

\* the table OGR creates for an empty layer without attribute fields
OgrCreateSql(name, wkb) ==
    <<"CREATE TABLE", name, "(", "fid INTEGER PRIMARY KEY AUTOINCREMENT NOT NULL">>
    \o (IF wkb = "NoGeometry" THEN <<>> ELSE <<",", "geom " \o wkb>>)
    \o <<")">>

\* the catalog objects OGR ties to the table: the index on its geometry column
OgrAux(name, wkb) ==
    IF wkb = "NoGeometry" THEN <<>>
    ELSE <<[type |-> "index", name |-> "idx_" \o name \o "_geom",
            sql |-> <<"CREATE INDEX", "idx_" \o name \o "_geom", "ON", name,
                      "(", "geom", ")">>]>>

OgrTable(name, wkb) ==
    [sql |-> OgrCreateSql(name, wkb), aux |-> OgrAux(name, wkb), rows |-> <<>>]

\* The errors a write can end with: a file that does not exist cannot be
\* opened for update (CreateOrOverwriteLayer), the rest is up to the storage.
WriterOutcomes(fs, fname, action) ==
    IF action = "CreateOrOverwriteLayer" /\ fname \notin DOMAIN fs
    THEN {"ErrCreateDataSource"}
    ELSE WriterErrors

\* The file system after a write that ended with err
writeAsVectorFormat(fs, fname, action, layerName, wkb, err) ==
    IF err # "NoError" THEN fs
    ELSE IF action = "CreateOrOverwriteLayer"
    THEN [fs EXCEPT ![fname] = DbPut(@, layerName, OgrTable(layerName, wkb))]
    ELSE (fname :> (layerName :> OgrTable(layerName, wkb)))
         @@ [f \in DOMAIN fs \ {fname} |-> fs[f]]

----------------------------------------------------------------------------
(* XYZLayer._init_constraint (layer.py:259-305) *)

\* layer.py:275-281: the CREATE statement under the temporary name, with the
\* constraint put before the first ")"
RewriteCreate(sql_create, sql_constraint, layer_name, tmp_name) ==
    LET renamed == Replace(sql_create, layer_name, tmp_name)
        parts == Partition(renamed, ")")
    IN  parts[1] \o <<",", sql_constraint>> \o parts[2] \o parts[3]

\* the statements in another order: the table is dropped before its
\* replacement is created
MigrationStatementsDropFirst(sql_create, lst_old_sql, layer_name, tmp_name) ==
    << <<"PRAGMA foreign_keys = '0'">>,
       <<"BEGIN TRANSACTION">>,
       <<"DROP TABLE", layer_name>>,
       sql_create,
       <<"PRAGMA defer_foreign_keys = '1'">>,
       <<"ALTER TABLE", tmp_name, "RENAME TO", layer_name>>,
       <<"PRAGMA defer_foreign_keys = '0'">> >>
    \o lst_old_sql
    \o << <<"COMMIT">>, <<"PRAGMA foreign_keys = '1'">> >>

\* the statements without the explicit BEGIN: each then commits on its own
MigrationStatementsNoBegin(sql_create, lst_old_sql, layer_name, tmp_name) ==
    << <<"PRAGMA foreign_keys = '0'">>,
       sql_create,
       <<"PRAGMA defer_foreign_keys = '1'">>,
       <<"DROP TABLE", layer_name>>,
       <<"ALTER TABLE", tmp_name, "RENAME TO", layer_name>>,
       <<"PRAGMA defer_foreign_keys = '0'">> >>
    \o lst_old_sql
    \o << <<"COMMIT">>, <<"PRAGMA foreign_keys = '1'">> >>

\* layer.py:283-295
MigrationStatements(sql_create, lst_old_sql, layer_name, tmp_name) ==
    << <<"PRAGMA foreign_keys = '0'">>,
       <<"BEGIN TRANSACTION">>,
       sql_create,
       <<"PRAGMA defer_foreign_keys = '1'">>,
       <<"DROP TABLE", layer_name>>,
       <<"ALTER TABLE", tmp_name, "RENAME TO", layer_name>>,
       <<"PRAGMA defer_foreign_keys = '0'">> >>
    \o lst_old_sql
    \o << <<"COMMIT">>, <<"PRAGMA foreign_keys = '1'">> >>

RECURSIVE RunStatements(_, _, _, _)
\* layer.py:296-302: the loop from statement i on; a statement that is None
\* raises TypeError at the test "COMMIT" in s, statement failAt raises
\* whatever it is (disk, lock), others raise when the engine rejects them.
\* [ok, conn, ran : the number of statements run, err]
RunStatements(conn, lst_sql, i, failAt) ==
    IF i > Len(lst_sql)
    THEN [ok |-> TRUE, conn |-> conn, ran |-> i - 1, err |-> "ok"]
    ELSE IF lst_sql[i] = SqlNull
    THEN [ok |-> FALSE, conn |-> conn, ran |-> i - 1, err |-> "TypeError"]
    ELSE IF i = failAt
    THEN [ok |-> FALSE, conn |-> conn, ran |-> i - 1, err |-> "sqlite3.Error"]
    ELSE IF Contains(lst_sql[i], "COMMIT")
    THEN RunStatements(Commit(conn), lst_sql, i + 1, failAt)
    ELSE CHOOSE out \in
           { IF r.ok THEN RunStatements(r.conn, lst_sql, i + 1, failAt)
             ELSE [ok |-> FALSE, conn |-> conn, ran |-> i - 1,
                   err |-> "sqlite3.Error"] :
             r \in {Execute(conn, lst_sql[i])} } : TRUE

\* the catalog read without the entries that follow the table
CatalogSqlTableOnly(db, layer_name) ==
    IF layer_name \in DOMAIN db THEN <<db[layer_name].sql>> ELSE <<>>

\* layer.py:267-272: the sql of the catalog entries with tbl_name =
\* layer_name, in the order of the catalog: the table, the indexes SQLite
\* made for its UNIQUE columns (sql NULL), then the objects created on it
CatalogSql(db, layer_name) ==
    IF layer_name \in DOMAIN db
    THEN <<db[layer_name].sql>>
         \o AutoIndexSql(db[layer_name].sql)
         \o [i \in 1..Len(db[layer_name].aux) |-> db[layer_name].aux[i].sql]
    ELSE <<>>

\* How far a migration of n statements got when ran of them had run: which of
\* DROP TABLE (the 5th) and COMMIT (the last but one) it had passed
MigrationPhase(ok, ran, n) ==
    IF ok THEN "done"
    ELSE IF ran < 5 THEN "before drop"
    ELSE IF ran < n - 1 THEN "before commit"
    ELSE "after commit"

\* layer.py:272-305: the migration once the catalog entries lst are read.
\* [err, db, phase, executed]: how it ended, what the file holds afterwards,
\* and the statements that ran, in order.  An exception leaves the connection
\* to be dropped: what was not committed is rolled back.
MigrateTable(conn, lst, sql_constraint, layer_name, failAt) ==
    LET tmp_name == "tmp_" \o layer_name
        lst_old_sql == Tail(lst)
        sql_create == RewriteCreate(Head(lst), sql_constraint,
                                    layer_name, tmp_name)
        lst_sql == MigrationStatements(sql_create, lst_old_sql,
                                       layer_name, tmp_name)
    IN  CHOOSE out \in
          { IF r.ok
            THEN [err |-> "ok", db |-> Commit(r.conn).committed,
                  phase |-> MigrationPhase(TRUE, r.ran, Len(lst_sql)),
                  executed |-> lst_sql]
            ELSE [err |-> r.err, db |-> r.conn.committed,
                  phase |-> MigrationPhase(FALSE, r.ran, Len(lst_sql)),
                  executed |-> SubSeq(lst_sql, 1, r.ran)] :
            r \in {RunStatements(conn, lst_sql, 1, failAt)} } : TRUE

\* _init_constraint looking at the catalog entries only after it has switched
\* the foreign keys off and begun the transaction
_init_constraint_late_check(db, sql_constraint, layer_name, failAt) ==
    LET conn == Connect(db)
        lst == CatalogSql(conn.work, layer_name)
    IN  IF Len(lst) = 0
        THEN [err |-> "No layer found in GPKG", db |-> db, phase |-> "not run",
              executed |-> << <<"PRAGMA foreign_keys = '0'">>,
                              <<"BEGIN TRANSACTION">> >>]
        ELSE MigrateTable(conn, lst, sql_constraint, layer_name, failAt)

\* layer.py:259-305: [err, db, phase, executed]
_init_constraint(db, sql_constraint, layer_name, failAt) ==
    LET conn == Connect(db)
        lst == CatalogSql(conn.work, layer_name)
    IN  IF Len(lst) = 0
        THEN [err |-> "No layer found in GPKG", db |-> db, phase |-> "not run",
              executed |-> <<>>]
        ELSE MigrateTable(conn, lst, sql_constraint, layer_name, failAt)

----------------------------------------------------------------------------
(* XYZLayer._init_ext_layer (layer.py:212-257) *)

\* The backing file of a store
StoreFile(m, tg, u) == make_fixed_full_path(_layer_fname(m, tg, u), DefaultExt)

\* the write that retries in create-new-file mode after any error
NeedsNewFileAlways(err) == err # "NoError"

\* layer.py:243: the second write is made on a data source creation error
NeedsNewFile(err) == err = "ErrCreateDataSource"

\* [err, fs, vlayer, attempts, phase, executed]: w1 and w2 are the errors the first and
\* the second write end with, failAt the statement at which the migration is
\* made to fail (0: none).  attempts lists the writes made, phase tells how
\* far the migration got, executed lists the statements it ran.
_init_ext_layer(fs, m, tg, u, geom_str, idx, w1, w2, failAt) ==
    LET layer_name == _layer_name(m, tg, geom_str, idx)
        fname == StoreFile(m, tg, u)
        wkb == MemoryLayerWkbType(geom_str)
        db_layer_name == _db_layer_name(geom_str, idx)
        fs1 == writeAsVectorFormat(fs, fname, "CreateOrOverwriteLayer",
                                   db_layer_name, wkb, w1)
        retry == NeedsNewFile(w1)
        fs2 == IF retry
               THEN writeAsVectorFormat(fs1, fname, "CreateOrOverwriteFile",
                                        db_layer_name, wkb, w2)
               ELSE fs1
        err == IF retry THEN w2 ELSE w1
        attempts == IF retry
                    THEN << <<"CreateOrOverwriteLayer", w1>>,
                            <<"CreateOrOverwriteFile", w2>> >>
                    ELSE << <<"CreateOrOverwriteLayer", w1>> >>
        none == [source |-> <<"", "">>, name |-> "", wkb |-> ""]
    IN  IF err # "NoError"
        THEN [err |-> err, fs |-> fs2, vlayer |-> none,
              attempts |-> attempts, phase |-> "not run", executed |-> <<>>]
        ELSE CHOOSE out \in
               { [err |-> mig.err,
                  fs |-> [fs2 EXCEPT ![fname] = mig.db],
                  vlayer |-> IF mig.err = "ok"
                             THEN [source |-> <<fname, db_layer_name>>,
                                   name |-> layer_name, wkb |-> wkb]
                             ELSE none,
                  attempts |-> attempts, phase |-> mig.phase,
                  executed |-> mig.executed] :
                 mig \in {_init_constraint(fs2[fname], SqlConstraint,
                                           db_layer_name, failAt)} } : TRUE

----------------------------------------------------------------------------
(* SpaceConnectionInfo.to_dict / from_dict (models) *)

to_dict(ci) == <<<<"server", ci.server>>, <<"space_id", ci.space_id>>,
                 <<"token", ci.token>>>>

from_dict(d) == [server |-> DictGet(d, "server", ""),
                 space_id |-> DictGet(d, "space_id", ""),
                 token |-> DictGet(d, "token", "")]

----------------------------------------------------------------------------
(* The layer tree: the store's main group, its geometry groups, their layers *)

NoProps == [hub |-> <<>>, conn |-> <<>>, tags |-> <<>>, id |-> 0]

NoNode == [exists |-> FALSE, name |-> "", props |-> NoProps, groups |-> <<>>]

\* QgsLayerTreeGroup.insertGroup(index, name): an index out of range appends
InsertGroup(groups, index, name) ==
    LET g == [name |-> name, layers |-> <<>>]
    IN  IF index < 0 \/ index >= Len(groups)
        THEN Append(groups, g)
        ELSE SubSeq(groups, 1, index) \o <<g>> \o SubSeq(groups, index + 1, Len(groups))

\* group.addLayer(vlayer) on the group called name
AddLayerToGroup(groups, name, vlayer) ==
    [i \in 1..Len(groups) |->
        IF groups[i].name = name
        THEN [groups[i] EXCEPT !.layers = Append(@, vlayer)]
        ELSE groups[i]]

\* layer.py:81-85
_save_meta_node(m, ci, tg, u) ==
    [hub |-> JsonDumps(m), conn |-> JsonDumps(to_dict(ci)), tags |-> tg,
     id |-> get_id(u)]

\* str.startswith
startswith(x, prefix) ==
    Len(x) >= Len(prefix) /\ SubSeq(x, 1, Len(prefix)) = prefix

\* layer.py:165-178: the store's main group, made on the first call: named
\* after the space and the tags, with the number of the root's groups whose
\* name starts with that name appended when there are any, inserted first
\* under the root.  [group_name, qgroups, qnode, tree_root]
add_empty_group(gname, qg, node, root, m, ci, tg, u) ==
    IF "main" \in qg
    THEN [group_name |-> gname, qgroups |-> qg, qnode |-> node,
          tree_root |-> root]
    ELSE LET name0 == _make_group_name(m, tg, NoIdx)
             is_dupe(x) == startswith(x, name0)
             dupe_names == SelectSeq(root, is_dupe)
             idx == Len(dupe_names)
             name == IF idx # 0 THEN _make_group_name(m, tg, idx) ELSE name0
         IN  [group_name |-> name, qgroups |-> qg \cup {"main"},
              qnode |-> [exists |-> TRUE, name |-> name,
                         props |-> _save_meta_node(m, ci, tg, u),
                         groups |-> <<>>],
              tree_root |-> <<name>> \o root]

\* _add_layer asserting idx <= len(lst): an index already taken is accepted
_add_layer_at_most(mv, geom_str, vlayer, idx) ==
    LET mv1 == IF geom_str \in DOMAIN mv THEN mv ELSE (geom_str :> <<>>) @@ mv
    IN  IF idx <= Len(mv1[geom_str])
        THEN [ok |-> TRUE, mv |-> [mv1 EXCEPT ![geom_str] = Append(@, vlayer)]]
        ELSE [ok |-> FALSE, mv |-> mv1]

\* layer.py:207-210: [ok, mv].  setdefault leaves the key behind even when
\* the assertion fails.
_add_layer(mv, geom_str, vlayer, idx) ==
    LET mv1 == IF geom_str \in DOMAIN mv THEN mv ELSE (geom_str :> <<>>) @@ mv
    IN  IF idx = Len(mv1[geom_str])
        THEN [ok |-> TRUE, mv |-> [mv1 EXCEPT ![geom_str] = Append(@, vlayer)]]
        ELSE [ok |-> FALSE, mv |-> mv1]

RECURSIVE GroupLayers(_)
\* the layers of the groups, group after group
GroupLayers(groups) ==
    IF groups = <<>> THEN <<>>
    ELSE Head(groups).layers \o GroupLayers(Tail(groups))

RECURSIVE CollectLayers(_, _)
\* layer.py:73-76: each layer appended under the display string of its type
CollectLayers(mv, layers) ==
    IF layers = <<>> THEN mv
    ELSE LET geom_str == displayString(Head(layers).wkb)
             mv1 == IF geom_str \in DOMAIN mv THEN mv ELSE (geom_str :> <<>>) @@ mv
         IN  CollectLayers([mv1 EXCEPT ![geom_str] = Append(@, Head(layers))],
                           Tail(layers))

EmptyMap == [k \in {} |-> <<>>]

----------------------------------------------------------------------------
(* The store: construction and operations *)

\* the geometry kinds features arrive with; PyNone: a feature without geometry
Kinds == {"Point", PyNone}

\* XYZLayer(conn_info, meta, tags, unique) as callers construct it, with the
\* clock reading int(time.time() * 10) used when unique is not given (0)
StoreArgs ==
    { [tags |-> <<>>, unique |-> 0, clock |-> 12],
      [tags |-> <<"a", ",", "b">>, unique |-> 7, clock |-> 12] }

TheConnInfo == [server |-> "hub", space_id |-> "abc", token |-> "tok"]

TheMeta == <<<<"id", "abc">>, <<"title", "T">>>>

NoOp == [op |-> "init", geom_str |-> "", idx |-> 0, err |-> "ok", phase |-> "",
         batch |-> <<>>, before |-> <<>>]

NetIdle ==
    /\ replies = <<>>
    /\ timers = {}
    /\ now = 0
    /\ pager = [pc |-> "idle"]

\* The groups the project holds under its root before the store is made:
\* none, or the groups of other stores of the same space beside a group of
\* the user's
Projects ==
    { <<>>,
      <<_make_group_name(TheMeta, <<"a", ",", "b">>, NoIdx), "basemap">>,
      <<_make_group_name(TheMeta, <<"a", ",", "b">>, 1),
        _make_group_name(TheMeta, <<"a", ",", "b">>, NoIdx)>> }

\* layer.py:45-56, in a project whose root holds the groups root
InitStoreIn(a, root) ==
        /\ conn_info = TheConnInfo
        /\ meta = TheMeta
        /\ tags = a.tags
        /\ unique = (IF a.unique # 0 THEN a.unique ELSE a.clock)
        /\ group_name = "XYZ Hub Layer"
        /\ map_vlayer = EmptyMap
        /\ qgroups = {}
        /\ qnode = NoNode
        /\ tree_root = root
        /\ files = [f \in {} |-> EmptyMap]
        /\ last = NoOp

\* layer.py:45-56, in an empty project
InitStore(a) == InitStoreIn(a, <<>>)

\* a store constructed with its tags and its unique token given
Init == InitStore([tags |-> <<"a", ",", "b">>, unique |-> 7, clock |-> 12]) /\ NetIdle

\* a store constructed either way
InitAny == (\E a \in StoreArgs, root \in Projects : InitStoreIn(a, root)) /\ NetIdle

\* the store with its tags and token given, in any of the projects
InitProject ==
    /\ \E root \in Projects :
          InitStoreIn([tags |-> <<"a", ",", "b">>, unique |-> 7, clock |-> 12], root)
    /\ NetIdle

\* What the storage does to one add_ext_layer call: the errors of the first
\* and of the second write, and the statement the migration fails at (0: none)
Environment(fs, fname) ==
    { e \in [w1 : WriterOutcomes(fs, fname, "CreateOrOverwriteLayer"),
             w2 : WriterErrors, failAt : 0..FailPoints] :
        /\ (e.w1 # "ErrCreateDataSource" => e.w2 = "NoError")
        /\ ("NoError" \notin {e.w1, e.w2} => e.failAt = 0) }

\* A storage that does not fail: the first write fails only for want of the
\* file, and then the second write creates it
QuietEnvironment(fs, fname) ==
    { e \in Environment(fs, fname) :
        /\ e.failAt = 0
        /\ "NoError" \in {e.w1, e.w2}
        /\ (e.w1 = "ErrCreateDataSource" => fname \notin DOMAIN fs) }

\* layer.py:165-178, 179-206: add_ext_layer(geom_str, idx) with the storage
\* behaving in one of the ways envs
AddExtLayerWith(geom_str, idx, envs) ==
    \E e \in envs :
      \E r \in {_init_ext_layer(files, meta, tags, unique, geom_str, idx,
                                 e.w1, e.w2, e.failAt)} :
        LET a == _add_layer(map_vlayer, geom_str, r.vlayer, idx)
            done(err) == [NoOp EXCEPT !.op = "add_ext_layer",
                                      !.geom_str = geom_str, !.idx = idx,
                                      !.err = err, !.phase = r.phase]
            g == add_empty_group(group_name, qgroups, qnode, tree_root,
                                 meta, conn_info, tags, unique)
            geom == _group_geom_name(geom_str)
            order == GEOM_ORDER(geom)
            groups1 == IF geom \in qgroups THEN g.qnode.groups
                       ELSE InsertGroup(g.qnode.groups, order, geom)
        IN  /\ files' = r.fs
            /\ UNCHANGED <<conn_info, meta, tags, unique>>
            /\ IF r.err # "ok"
               THEN /\ last' = done(r.err)
                    /\ UNCHANGED <<map_vlayer, qgroups, qnode, tree_root, group_name>>
               ELSE IF ~a.ok
               THEN /\ last' = done("AssertionError")
                    /\ map_vlayer' = a.mv
                    /\ UNCHANGED <<qgroups, qnode, tree_root, group_name>>
               ELSE /\ last' = done("ok")
                    /\ map_vlayer' = a.mv
                    /\ group_name' = g.group_name
                    /\ tree_root' = g.tree_root
                    /\ qgroups' = g.qgroups \cup {geom}
                    /\ qnode' = [g.qnode EXCEPT !.groups =
                                    AddLayerToGroup(groups1, geom, r.vlayer)]

\* layer.py:165-178: add_empty_group() called on its own
AddEmptyGroup ==
    /\ \E g \in {add_empty_group(group_name, qgroups, qnode, tree_root,
                                  meta, conn_info, tags, unique)} :
          /\ group_name' = g.group_name
          /\ qgroups' = g.qgroups
          /\ qnode' = g.qnode
          /\ tree_root' = g.tree_root
    /\ last' = [NoOp EXCEPT !.op = "add_empty_group"]
    /\ UNCHANGED <<conn_info, meta, tags, unique, map_vlayer, files>>

\* add_ext_layer(geom_str, idx), whatever the storage does
AddExtLayer(geom_str, idx) ==
    AddExtLayerWith(geom_str, idx, Environment(files, StoreFile(meta, tags, unique)))

\* layer.py:58-79: the store rebuilt from its main group in the layer tree
LoadFromQnode ==
    /\ qnode.exists
    /\ meta' = JsonLoads(qnode.props.hub)
    /\ conn_info' = from_dict(JsonLoads(qnode.props.conn))
    /\ tags' = qnode.props.tags
    /\ unique' = qnode.props.id
    /\ group_name' = qnode.name
    /\ qgroups' = {"main"} \cup {qnode.groups[i].name : i \in 1..Len(qnode.groups)}
    /\ map_vlayer' = CollectLayers(EmptyMap, GroupLayers(qnode.groups))
    /\ last' = [NoOp EXCEPT !.op = "load_from_qnode"]
    /\ UNCHANGED <<qnode, tree_root, files>>

NetUnchanged == UNCHANGED <<replies, timers, now, pager>>

\* The calls made in the store in use: every index of one kind, and the first
\* partition of the other kind in the same file
Calls == {<<"Point", i>> : i \in 0..MaxIdx} \cup {<<PyNone, 0>>}

\* The store in use: partitions are added, with every outcome of the storage
Next ==
    \E c \in Calls : AddExtLayer(c[1], c[2]) /\ NetUnchanged

Spec == Init /\ [][Next]_vars

\* The store in use and re-attached, on a storage that does not fail:
\* partitions are added, and the store is rebuilt from the layer tree
NextReload ==
    \/ \E k \in Kinds, i \in 0..MaxIdx :
          /\ Len(GroupLayers(qnode.groups)) < MaxLayers
          /\ AddExtLayerWith(k, i, QuietEnvironment(files, StoreFile(meta, tags, unique)))
          /\ NetUnchanged
    \/ AddEmptyGroup /\ NetUnchanged
    \/ LoadFromQnode /\ NetUnchanged

SpecReload == InitAny /\ [][NextReload]_vars

----------------------------------------------------------------------------
(* Feature batches written into a partition (the loader's write through the *)
(* layer's data provider)                                                   *)

FeatureIds == {"f1", "f2"}

FeatureVals == {"a", "b"}

Features == [xyz_id : FeatureIds, val : FeatureVals]

Batches == UNION {[1..n -> Features] : n \in 1..MaxBatch}

\* The rows of the table a vlayer reads, <<>> when the table is gone
LayerRows(fs, vlayer) ==
    IF vlayer.source[1] \in DOMAIN fs /\ vlayer.source[2] \in DOMAIN fs[vlayer.source[1]]
    THEN fs[vlayer.source[1]][vlayer.source[2]].rows
    ELSE <<>>

\* The features of a batch are inserted, in order, into the table of the
\* partition (geom_str, idx)
WriteBatch(geom_str, idx, batch) ==
    /\ has_layer(map_vlayer, geom_str, idx)
    /\ \E vlayer \in {get_layer(map_vlayer, geom_str, idx)} :
        LET fname == vlayer.source[1]
            table == vlayer.source[2]
        IN  /\ fname \in DOMAIN files
            /\ table \in DOMAIN files[fname]
            /\ Len(files[fname][table].rows) + Len(batch) <= MaxRows
            /\ files' = [files EXCEPT ![fname][table] = InsertRows(@, batch)]
            /\ last' = [NoOp EXCEPT !.op = "write_batch", !.geom_str = geom_str,
                                    !.idx = idx, !.batch = batch,
                                    !.before = files[fname][table].rows]
    /\ UNCHANGED <<conn_info, meta, tags, unique, group_name, map_vlayer,
                   qgroups, qnode, tree_root>>

\* One partition created, re-created and written into
NextRows ==
    \/ AddExtLayer("Point", 0) /\ NetUnchanged
    \/ \E b \in Batches : WriteBatch("Point", 0, b) /\ NetUnchanged

SpecRows == Init /\ [][NextRows]_vars

----------------------------------------------------------------------------
(* Properties of the store *)

\* The partitions registered for a kind, <<>> when the kind has none
Partitions(mv, geom_str) == IF geom_str \in DOMAIN mv THEN mv[geom_str] ELSE <<>>

\* The database in the store's backing file, empty when the file is absent
StoreDb ==
    IF StoreFile(meta, tags, unique) \in DOMAIN files
    THEN files[StoreFile(meta, tags, unique)]
    ELSE EmptyMap

\* The table as _init_constraint leaves it: the columns OGR wrote followed by
\* the unique xyz_id column, the index re-created, no rows
MigratedTable(name, wkb) ==
    [sql |-> SubSeq(OgrCreateSql(name, wkb), 1, Len(OgrCreateSql(name, wkb)) - 1)
             \o <<",", SqlConstraint, ")">>,
     aux |-> OgrAux(name, wkb),
     rows |-> <<>>]

\* the write and the migration of the last add_ext_layer call both succeeded
LastMigrated == last.op = "add_ext_layer" /\ last.err \in {"ok", "AssertionError"}

LastTable == _db_layer_name(last.geom_str, last.idx)

\* C1: add_ext_layer(kind, i) whose write and migration succeed: with i the
\* number of partitions registered for the kind it succeeds and the number
\* grows by exactly one; with any other i, smaller or larger, it fails on the
\* assertion of _add_layer and the number is unchanged.
C1_EnsurePartitionCount ==
    [][ (last'.op = "add_ext_layer" /\ last'.err \in {"ok", "AssertionError"}) =>
          IF last'.idx = Count(map_vlayer, last'.geom_str)
          THEN /\ last'.err = "ok"
               /\ Count(map_vlayer', last'.geom_str)
                    = Count(map_vlayer, last'.geom_str) + 1
          ELSE /\ last'.err = "AssertionError"
               /\ Count(map_vlayer', last'.geom_str)
                    = Count(map_vlayer, last'.geom_str) ]_vars

\* C1 witness: a call with an index below the count has failed after an
\* earlier call had succeeded
C1_Witness ==
    /\ last.op = "add_ext_layer"
    /\ last.err = "AssertionError"
    /\ last.idx < Count(map_vlayer, last.geom_str)

\* C2: for each kind the registered partitions are the indices 0..n-1 in list
\* order, the partition at position i is backed by table <kind>_<i>, and once
\* registered at (kind, i) the partition get_layer(kind, i) returns never
\* changes.
C2_StableIndices ==
    /\ [](\A k \in DOMAIN map_vlayer : \A i \in 0..(Len(map_vlayer[k]) - 1) :
            get_layer(map_vlayer, k, i).source[2] = _db_layer_name(k, i))
    /\ [][\A k \in DOMAIN map_vlayer : \A i \in 0..(Len(map_vlayer[k]) - 1) :
            /\ has_layer(map_vlayer', k, i)
            /\ get_layer(map_vlayer', k, i) = get_layer(map_vlayer, k, i)]_vars

\* the rows of the partition the last batch was written into
LastRows == LayerRows(files, get_layer(map_vlayer, last.geom_str, last.idx))

\* the table of the partition the last batch was written into has the unique
\* xyz_id column
LastWriteMigrated ==
    /\ last.op = "write_batch"
    /\ ConflictPolicy(StoreDb[LastTable]) # "NONE"

\* C3: a batch written into a migrated partition leaves exactly one row for
\* each id of the batch, holding the values the batch gives it last, also when
\* an earlier batch had written a row with that id; the other rows stay.
C3_ReplaceOnConflict ==
    LastWriteMigrated =>
        /\ \A j \in 1..Len(last.batch) :
             /\ Cardinality({i \in 1..Len(LastRows) :
                    LastRows[i].xyz_id = last.batch[j].xyz_id}) = 1
             /\ \E i \in 1..Len(LastRows) :
                    /\ LastRows[i].xyz_id = last.batch[j].xyz_id
                    /\ \E l \in j..Len(last.batch) :
                         /\ LastRows[i] = last.batch[l]
                         /\ \A m \in (l+1)..Len(last.batch) :
                                last.batch[m].xyz_id # LastRows[i].xyz_id
        /\ \A i \in 1..Len(last.before) :
             (\A j \in 1..Len(last.batch) :
                  last.batch[j].xyz_id # last.before[i].xyz_id)
             => \E l \in 1..Len(LastRows) : LastRows[l] = last.before[i]

\* C3 witness: the second batch has rewritten, with other values, an id the
\* first batch had written
C3_Witness ==
    /\ LastWriteMigrated
    /\ \E i \in 1..Len(last.before), j \in 1..Len(last.batch) :
          /\ last.before[i].xyz_id = last.batch[j].xyz_id
          /\ last.before[i].val # last.batch[j].val

\* C6: a partition is registered only with its table written and migrated:
\* the table of every registered partition is in the backing file and carries
\* the unique xyz_id column, so no batch goes into a table whose migration
\* failed, and a call whose write or migration failed leaves the count as it
\* was.
C6_RegisteredIsMigrated ==
    /\ [](\A k \in DOMAIN map_vlayer : \A i \in 0..(Len(map_vlayer[k]) - 1) :
            LET table == get_layer(map_vlayer, k, i).source[2]
            IN  /\ table \in DOMAIN StoreDb
                /\ ConflictPolicy(StoreDb[table]) = "REPLACE")
    /\ [][ (last'.op = "add_ext_layer" /\ last'.err \notin {"ok", "AssertionError"})
           => \A k \in Kinds : Count(map_vlayer', k) = Count(map_vlayer, k) ]_vars

\* C7: after a migration that failed at any of its statements the backing
\* file holds the table either exactly as written before the migration (table
\* and index) or exactly as fully migrated, and at no time a temporary table
\* or a table in another shape.
C7_MigrationAtomic ==
    /\ \A n \in DOMAIN StoreDb :
          \E c \in Calls :
             /\ n = _db_layer_name(c[1], c[2])
             /\ StoreDb[n] \in {OgrTable(n, MemoryLayerWkbType(c[1])),
                                MigratedTable(n, MemoryLayerWkbType(c[1]))}
    /\ (last.op = "add_ext_layer" /\ last.err = "sqlite3.Error") =>
          /\ LastTable \in DOMAIN StoreDb
          /\ StoreDb[LastTable] =
                IF last.phase = "after commit"
                THEN MigratedTable(LastTable, MemoryLayerWkbType(last.geom_str))
                ELSE OgrTable(LastTable, MemoryLayerWkbType(last.geom_str))

\* C7 witness: a migration has failed between DROP TABLE and COMMIT
C7_Witness ==
    /\ last.op = "add_ext_layer"
    /\ last.err = "sqlite3.Error"
    /\ last.phase = "before commit"

\* C8 as stated: the migrated table has the same column set as the table
\* written, the same index, the uniqueness constraint, zero rows, under the
\* original name, and no temporary table remains.
C8_SameColumnSet ==
    LastMigrated =>
        /\ LastTable \in DOMAIN StoreDb
        /\ ("tmp_" \o LastTable) \notin DOMAIN StoreDb
        /\ LET tbl == StoreDb[LastTable]
               wkb == MemoryLayerWkbType(last.geom_str)
           IN  /\ Columns(tbl.sql) = Columns(OgrCreateSql(LastTable, wkb))
               /\ ConflictPolicy(tbl) = "REPLACE"
               /\ tbl.aux = OgrAux(LastTable, wkb)
               /\ tbl.rows = <<>>

\* C8 amended: the migrated table, under the original name, has the columns of
\* the table written, in order, followed by one new column, xyz_id with the
\* uniqueness constraint, put right before the closing parenthesis; it has the
\* same index and zero rows, and no temporary table remains.
C8_ColumnsPlusUniqueId ==
    LastMigrated =>
        /\ LastTable \in DOMAIN StoreDb
        /\ ("tmp_" \o LastTable) \notin DOMAIN StoreDb
        /\ LET tbl == StoreDb[LastTable]
               wkb == MemoryLayerWkbType(last.geom_str)
           IN  /\ tbl.sql[2] = LastTable
               /\ Columns(tbl.sql)
                    = Columns(OgrCreateSql(LastTable, wkb)) \o <<SqlConstraint>>
               /\ tbl.sql[Len(tbl.sql) - 1] = SqlConstraint
               /\ tbl.sql[Len(tbl.sql)] = ")"
               /\ ConflictPolicy(tbl) = "REPLACE"
               /\ tbl.aux = OgrAux(LastTable, wkb)
               /\ tbl.rows = <<>>

\* C8 witness: a table written with one index has been migrated
C8_Witness ==
    /\ LastMigrated
    /\ Len(OgrAux(LastTable, MemoryLayerWkbType(last.geom_str))) = 1
    /\ LastTable \in DOMAIN StoreDb
    /\ Len(StoreDb[LastTable].aux) = 1

\* C9: a store saved to its main group and loaded from it has the same backing
\* file name and, for every geometry kind, the same ordered list of partitions.
C9_SaveLoadRoundTrip ==
    [][ last'.op = "load_from_qnode" =>
          /\ _layer_fname(meta', tags', unique') = _layer_fname(meta, tags, unique)
          /\ \A k \in Kinds \cup DOMAIN map_vlayer \cup DOMAIN map_vlayer' :
                Partitions(map_vlayer', k) = Partitions(map_vlayer, k) ]_vars

----------------------------------------------------------------------------
(* The hub client: NetManager *)

\* replies kept in one behaviour
MaxReplies == 2

\* the clock advances by at most TickStep at a time, up to MaxTime
TickStep == 500
MaxTime == 2000

\* network.py:17
TIMEOUT_COUNT == 1000

\* Python's dict.update: the entries of e override those of d
Update(d, e) == e @@ d

\* Python's dict.pop(key): the dict without the key
Without(d, key) == [k \in (DOMAIN d) \ {key} |-> d[k]]

\* net_utils.make_conn_request(conn_info, endpoint, **kw_request): the request
\* addressed to the endpoint of the connection's space, with the keyword
\* arguments as its query parameters
make_conn_request(ci, endpoint, kw_request) ==
    [conn_info |-> ci, endpoint |-> endpoint, query |-> kw_request]

\* net_utils.set_qt_property(reply, conn_info=conn_info, **kw_prop): the
\* properties set on the reply object
set_qt_property(reply, kw) == [reply EXCEPT !.props = Update(@, kw)]

\* network.py:27-30
_pre_send_request(ci, endpoint, kw_request) ==
    make_conn_request(ci, endpoint, kw_request)

\* QNetworkAccessManager.get/post/put/sendCustomRequest: the reply in flight
NetworkSend(method, request) ==
    [method |-> method, endpoint |-> request.endpoint, query |-> request.query,
     props |-> EmptyMap, state |-> "running", completions |-> 0]

\* _post_send_request leaving the connection out of the properties
_post_send_request_tag_only(reply, ci, kw_prop) ==
    set_qt_property(reply, kw_prop)

\* network.py:32-33
_post_send_request(reply, ci, kw_prop) ==
    set_qt_property(reply, Update(("conn_info" :> ci), kw_prop))

\* network.py:35-42
_send_request(ci, endpoint, kw_request, kw_prop) ==
    _post_send_request(
        NetworkSend("GET", _pre_send_request(ci, endpoint, kw_request)),
        ci, kw_prop)

\* network.py:57-63
_get_space_(ci, reply_tag) ==
    _send_request(ci,
        "/spaces/{space_id}" \o (IF reply_tag # "space_meta" THEN "/" \o reply_tag ELSE ""),
        EmptyMap,
        ("reply_tag" :> reply_tag))

\* QTimer.singleShot(timeout, reply.abort) at time t for the reply numbered id
singleShot(timeout, id, t) == [reply |-> id, due |-> t + timeout]

\* get_count leaving a timer behind as get_statistics does
get_count_timed(ci, id, t) ==
    [reply |-> _get_space_(ci, "count"),
     timers |-> {singleShot(TIMEOUT_COUNT, id, t)}]

\* network.py:46-50: the reply and the timers installed; id is the number of
\* the reply, t the time of the call
get_statistics(ci, id, t) ==
    [reply |-> _get_space_(ci, "statistics"),
     timers |-> {singleShot(TIMEOUT_COUNT, id, t)}]

\* network.py:51-53
get_count(ci, id, t) ==
    [reply |-> _get_space_(ci, "count"),
     timers |-> {}]

\* network.py:54-55
get_meta(ci, id, t) ==
    [reply |-> _get_space_(ci, "space_meta"),
     timers |-> {}]

\* _load_features_endpoint echoing nothing but the tag
_load_features_endpoint_tag_only(endpoint, ci, reply_tag, kw_iterate) ==
    _send_request(ci, endpoint, kw_iterate, ("reply_tag" :> reply_tag))

\* _load_features_endpoint sending no cursor
_load_features_endpoint_no_handle(endpoint, ci, reply_tag, kw_iterate) ==
    _send_request(ci, endpoint, Without(kw_iterate, "handle"),
                  Update(("reply_tag" :> reply_tag), kw_iterate))

\* network.py:138-145
_load_features_endpoint(endpoint, ci, reply_tag, kw_iterate) ==
    _send_request(ci, endpoint, kw_iterate,
                  Update(("reply_tag" :> reply_tag), kw_iterate))

\* network.py:110-119
load_features_bbox(ci, bbox, kw) ==
    _send_request(ci, "/spaces/{space_id}/bbox",
                  Update(bbox, kw),
                  Update(Update(("reply_tag" :> "bbox"), kw), ("bbox" :> bbox)))

\* network.py:121-126.  The call is made only with no reply_tag in kw: Python
\* raises TypeError on the keyword given twice, before anything is sent.
load_features_tile(ci, tile_id, tile_schema, kw) ==
    _load_features_endpoint(
        "/spaces/{space_id}/" \o "tile/" \o tile_schema \o "/" \o tile_id,
        ci, "tile", kw)

\* network.py:128-131
load_features_iterate(ci, kw_iterate) ==
    _load_features_endpoint("/spaces/{space_id}/iterate", ci,
        IF "reply_tag" \in DOMAIN kw_iterate THEN kw_iterate["reply_tag"] ELSE "iterate",
        Without(kw_iterate, "reply_tag"))

\* network.py:133-136
load_features_search(ci, kw_iterate) ==
    _load_features_endpoint("/spaces/{space_id}/search", ci,
        IF "reply_tag" \in DOMAIN kw_iterate THEN kw_iterate["reply_tag"] ELSE "search",
        Without(kw_iterate, "reply_tag"))

----------------------------------------------------------------------------
(* The hub client in use: statistics, count and metadata calls under a clock *)

StoreUnchanged == UNCHANGED store_vars

\* the call that made the reply, the extra parameters it was given and the
\* time it was made, recorded with the reply
Issued(reply, op, extra, t) == [op |-> op, extra |-> extra, issued |-> t] @@ reply

\* a call of one of the three space operations, r what it returns
SpaceCall(op, r) ==
    /\ Len(replies) < MaxReplies
    /\ replies' = Append(replies, Issued(r.reply, op, EmptyMap, now))
    /\ timers' = timers \cup r.timers
    /\ UNCHANGED <<now, pager>>
    /\ StoreUnchanged

GetStatistics ==
    SpaceCall("get_statistics", get_statistics(conn_info, Len(replies) + 1, now))

GetCount ==
    SpaceCall("get_count", get_count(conn_info, Len(replies) + 1, now))

GetMeta ==
    SpaceCall("get_meta", get_meta(conn_info, Len(replies) + 1, now))

\* the network completes a reply in flight: finished() is delivered
Finish ==
    /\ \E i \in 1..Len(replies) :
          /\ replies[i].state = "running"
          /\ replies' = [replies EXCEPT ![i].state = "finished",
                                        ![i].completions = @ + 1]
    /\ UNCHANGED <<timers, now, pager>>
    /\ StoreUnchanged

\* QNetworkReply.abort: a reply in flight is finished in error and finished()
\* is delivered; one that is not in flight is left alone
abort(reply) ==
    IF reply.state = "running"
    THEN [reply EXCEPT !.state = "aborted", !.completions = @ + 1]
    ELSE reply

\* the event loop runs a timer that is due, once
TimerFire ==
    /\ \E t \in timers :
          /\ t.due <= now
          /\ timers' = timers \ {t}
          /\ replies' = [replies EXCEPT ![t.reply] = abort(@)]
    /\ UNCHANGED <<now, pager>>
    /\ StoreUnchanged

Min(S) == CHOOSE x \in S : \A y \in S : x <= y

\* time passes, never beyond the next timer due: the event loop runs a timer
\* when its time has come
Tick ==
    /\ now < MaxTime
    /\ \A t \in timers : now < t.due
    /\ now' = Min({now + TickStep, MaxTime} \cup {t.due : t \in timers})
    /\ UNCHANGED <<replies, timers, pager>>
    /\ StoreUnchanged

NextNet ==
    \/ GetStatistics
    \/ GetCount
    \/ GetMeta
    \/ Finish
    \/ TimerFire
    \/ Tick

SpecNet == Init /\ [][NextNet]_vars

----------------------------------------------------------------------------
(* The hub client in use: the four feature loading calls *)

ExtraKeys == {"limit", "handle", "reply_tag"}

ExtraValue == [limit |-> "2", handle |-> "h1", reply_tag |-> "custom"]

\* the extra keyword arguments of a call
Extras == {[k \in ks |-> ExtraValue[k]] : ks \in SUBSET ExtraKeys}

TheBbox == [west |-> "-1", south |-> "-2", east |-> "3", north |-> "4"]

LoadCall(op, reply, extra) ==
    /\ Len(replies) < MaxReplies
    /\ replies' = Append(replies, Issued(reply, op, extra, now))
    /\ UNCHANGED <<timers, now, pager>>
    /\ StoreUnchanged

LoadFeaturesBbox ==
    \E kw \in Extras :
        LoadCall("load_features_bbox", load_features_bbox(conn_info, TheBbox, kw), kw)

LoadFeaturesTile ==
    \E kw \in Extras :
        /\ "reply_tag" \notin DOMAIN kw
        /\ LoadCall("load_features_tile",
                    load_features_tile(conn_info, "0", "quadkey", kw), kw)

LoadFeaturesIterate ==
    \E kw \in Extras :
        LoadCall("load_features_iterate", load_features_iterate(conn_info, kw), kw)

LoadFeaturesSearch ==
    \E kw \in Extras :
        LoadCall("load_features_search", load_features_search(conn_info, kw), kw)

NextLoad ==
    \/ LoadFeaturesBbox
    \/ LoadFeaturesTile
    \/ LoadFeaturesIterate
    \/ LoadFeaturesSearch
    \/ Finish

SpecLoad == Init /\ [][NextLoad]_vars

----------------------------------------------------------------------------
(* Paging: a controller follows the cursor the hub returns *)

\* the pages asked for hold 1..MaxLimit features, the space 0..MaxFeatures
MaxLimit == 3
MaxFeatures == 4

\* the features of a space holding n features, in the order of the hub
SpaceFeatures(n) == [i \in 1..n |-> "f" \o ToStr(i)]

\* The hub's answer to an iterate or search request on a space of n features:
\* the page after the cursor of the request, and the cursor after the page,
\* <<>> when the page is the last
HubPage(query, n) ==
    LET start == IF "handle" \in DOMAIN query THEN query["handle"] ELSE 0
        stop == IF start + query["limit"] < n THEN start + query["limit"] ELSE n
    IN  [features |-> SubSeq(SpaceFeatures(n), start + 1, stop),
         handle |-> IF stop < n THEN <<stop>> ELSE <<>>]

\* the extra parameters of the next page: the limit, and the cursor when the
\* previous page returned one
PageExtra(pg) ==
    IF pg.cursor = <<>>
    THEN ("limit" :> pg.limit)
    ELSE ("limit" :> pg.limit) @@ ("handle" :> pg.cursor[1])

InitPage ==
    /\ InitStore([tags |-> <<"a", ",", "b">>, unique |-> 7, clock |-> 12])
    /\ replies = <<>>
    /\ timers = {}
    /\ now = 0
    /\ pager \in [pc : {"idle"}, op : {"load_features_iterate", "load_features_search"},
                  limit : 1..MaxLimit, n : 0..MaxFeatures,
                  cursor : {<<>>}, got : {<<>>}, pages : {<<>>}]

\* the controller asks for the next page
PageRequest ==
    /\ pager.pc = "idle"
    /\ replies' =
          <<Issued(IF pager.op = "load_features_iterate"
                   THEN load_features_iterate(conn_info, PageExtra(pager))
                   ELSE load_features_search(conn_info, PageExtra(pager)),
                   pager.op, PageExtra(pager), now)>>
    /\ pager' = [pager EXCEPT !.pc = "waiting"]
    /\ UNCHANGED <<timers, now>>
    /\ StoreUnchanged

\* the hub answers, and the controller takes the page and its cursor: it goes
\* on while the page holds features and comes with a cursor
PageReply ==
    /\ pager.pc = "waiting"
    /\ replies[1].state = "running"
    /\ \E page \in {HubPage(replies[1].query, pager.n)} :
          /\ replies' = <<[replies[1] EXCEPT !.state = "finished"]>>
          /\ pager' = [pager EXCEPT
                !.pc = IF page.features = <<>> \/ page.handle = <<>>
                       THEN "done" ELSE "idle",
                !.cursor = page.handle,
                !.got = @ \o page.features,
                !.pages = Append(@, page)]
    /\ UNCHANGED <<timers, now>>
    /\ StoreUnchanged

NextPage == PageRequest \/ PageReply

SpecPage == InitPage /\ [][NextPage]_vars

----------------------------------------------------------------------------
(* Properties of the hub client *)

\* C4: in a sequence of iterate or search calls, each carrying the cursor the
\* previous page returned, no feature id is returned twice, the pages are the
\* features of the space in order, and the sequence ends with a page that is
\* empty or comes without a cursor; every reply names its endpoint family and
\* the cursor it was asked with.
C4_PagesDoNotOverlap ==
    /\ \A i, j \in 1..Len(pager.got) : pager.got[i] = pager.got[j] => i = j
    /\ \E m \in 0..pager.n : pager.got = SubSeq(SpaceFeatures(pager.n), 1, m)
    /\ pager.pc = "done" =>
          /\ pager.got = SpaceFeatures(pager.n)
          /\ LET final == pager.pages[Len(pager.pages)]
             IN  final.features = <<>> \/ final.handle = <<>>
          /\ \A p \in 1..(Len(pager.pages) - 1) :
                pager.pages[p].features # <<>> /\ pager.pages[p].handle # <<>>
    /\ \A i \in 1..Len(replies) :
          /\ replies[i].props["reply_tag"]
                = (IF pager.op = "load_features_iterate" THEN "iterate" ELSE "search")
          /\ Len(pager.pages) > 0 /\ replies[i].state = "running"
                => /\ pager.pages[Len(pager.pages)].handle # <<>>
                   /\ "handle" \in DOMAIN replies[i].props
                   /\ replies[i].props["handle"] = pager.pages[Len(pager.pages)].handle[1]
                   /\ "handle" \in DOMAIN replies[i].query
                   /\ replies[i].query["handle"] = pager.pages[Len(pager.pages)].handle[1]

\* C4 witness: three features asked for two at a time came as <<f1, f2>> with a
\* cursor, then <<f3>> with none
C4_Witness ==
    /\ pager.pc = "done"
    /\ pager.n = 3
    /\ pager.limit = 2
    /\ Len(pager.pages) = 2
    /\ pager.pages[1].features = <<"f1", "f2">>
    /\ pager.pages[1].handle # <<>>
    /\ pager.pages[2].features = <<"f3">>
    /\ pager.pages[2].handle = <<>>

LoadOps == {"load_features_bbox", "load_features_tile",
            "load_features_iterate", "load_features_search"}

\* the tag of the endpoint family of a call
Family(op) ==
    CASE op = "load_features_bbox" -> "bbox"
      [] op = "load_features_tile" -> "tile"
      [] op = "load_features_iterate" -> "iterate"
      [] op = "load_features_search" -> "search"

\* C5 as stated: for each of the four loading calls every key/value pair of
\* extra is, unmodified, in the query of the request and in the properties of
\* the reply, and the reply_tag property names the endpoint family called.
C5_ExtraVerbatim ==
    \A i \in 1..Len(replies) :
        replies[i].op \in LoadOps =>
            /\ \A k \in DOMAIN replies[i].extra :
                  /\ k \in DOMAIN replies[i].query
                  /\ replies[i].query[k] = replies[i].extra[k]
                  /\ k \in DOMAIN replies[i].props
                  /\ replies[i].props[k] = replies[i].extra[k]
            /\ replies[i].props["reply_tag"] = Family(replies[i].op)

\* C5 amended: every key/value pair of extra other than reply_tag is,
\* unmodified, in the query and in the properties; the reply_tag property
\* names the endpoint family called when extra has no reply_tag and is the
\* reply_tag of extra otherwise, which iterate and search keep out of the
\* query, bbox sends in the query, and tile does not accept.
C5_ExtraVerbatimButTag ==
    \A i \in 1..Len(replies) :
        replies[i].op \in LoadOps =>
            /\ \A k \in (DOMAIN replies[i].extra) \ {"reply_tag"} :
                  /\ k \in DOMAIN replies[i].query
                  /\ replies[i].query[k] = replies[i].extra[k]
                  /\ k \in DOMAIN replies[i].props
                  /\ replies[i].props[k] = replies[i].extra[k]
            /\ replies[i].props["reply_tag"] =
                  (IF "reply_tag" \in DOMAIN replies[i].extra
                   THEN replies[i].extra["reply_tag"]
                   ELSE Family(replies[i].op))
            /\ "reply_tag" \in DOMAIN replies[i].extra =>
                  /\ replies[i].op # "load_features_tile"
                  /\ ("reply_tag" \in DOMAIN replies[i].query)
                        <=> (replies[i].op = "load_features_bbox")
            /\ "reply_tag" \notin DOMAIN replies[i].extra =>
                  "reply_tag" \notin DOMAIN replies[i].query

\* C5 witness: an iterate call given a limit, a cursor and a reply_tag, and a
\* tile call given a limit and a cursor
C5_Witness ==
    /\ \E i \in 1..Len(replies) :
          /\ replies[i].op = "load_features_iterate"
          /\ DOMAIN replies[i].extra = {"limit", "handle", "reply_tag"}
    /\ \E i \in 1..Len(replies) :
          /\ replies[i].op = "load_features_tile"
          /\ DOMAIN replies[i].extra = {"limit", "handle"}

\* C10: a get_statistics reply in flight has its timer pending, due
\* TIMEOUT_COUNT after the call, and that time has not passed: at that time
\* the timer aborts it, once.  No other call has a timer, and no other reply
\* is ever aborted.
C10_StatisticsTimeout ==
    /\ \A i \in 1..Len(replies) :
          /\ (replies[i].op = "get_statistics" /\ replies[i].state = "running") =>
                /\ [reply |-> i, due |-> replies[i].issued + TIMEOUT_COUNT] \in timers
                /\ now <= replies[i].issued + TIMEOUT_COUNT
          /\ replies[i].state = "aborted" =>
                /\ replies[i].op = "get_statistics"
                /\ now >= replies[i].issued + TIMEOUT_COUNT
    /\ \A t \in timers :
          /\ t.reply \in 1..Len(replies)
          /\ replies[t.reply].op = "get_statistics"
          /\ t.due = replies[t.reply].issued + TIMEOUT_COUNT
          /\ now <= t.due

\* C10 witness: a statistics call has been aborted while a count or metadata
\* call issued no later is still in flight, more than TIMEOUT_COUNT after it
\* was made
C10_Witness ==
    /\ \E i \in 1..Len(replies) :
          replies[i].op = "get_statistics" /\ replies[i].state = "aborted"
    /\ \E i \in 1..Len(replies) :
          /\ replies[i].op \in {"get_count", "get_meta"}
          /\ replies[i].state = "running"
          /\ now > replies[i].issued + TIMEOUT_COUNT

----------------------------------------------------------------------------
(* The storage methods on their own: _init_ext_layer and _init_constraint *)

\* what a storage method did, recorded with the writes it attempted and the
\* migration statements it ran
StorageOp(op, geom_str, idx, r, attempts) ==
    [attempts |-> attempts, executed |-> r.executed]
    @@ [NoOp EXCEPT !.op = op, !.geom_str = geom_str, !.idx = idx,
                    !.err = r.err, !.phase = r.phase]

\* layer.py:212-257: _init_ext_layer(geom_str, idx, crs), whatever the storage
\* does
InitExtLayer ==
    /\ \E c \in Calls :
       \E e \in Environment(files, StoreFile(meta, tags, unique)) :
       \E r \in {_init_ext_layer(files, meta, tags, unique, c[1], c[2],
                                  e.w1, e.w2, e.failAt)} :
          /\ files' = r.fs
          /\ last' = StorageOp("_init_ext_layer", c[1], c[2], r, r.attempts)
    /\ UNCHANGED <<conn_info, meta, tags, unique, group_name, map_vlayer,
                   qgroups, qnode, tree_root>>
    /\ NetUnchanged

\* layer.py:259-305: _init_constraint(fname, sql_constraint, layer_name) on the
\* backing file, whatever it holds, the file there or not
InitConstraint ==
    /\ \E c \in Calls, failAt \in 0..FailPoints :
       LET fname == StoreFile(meta, tags, unique)
           layer_name == _db_layer_name(c[1], c[2])
           fs1 == sqlite3_connect(files, fname)
       IN  \E r \in {_init_constraint(fs1[fname], SqlConstraint,
                                      layer_name, failAt)} :
              /\ files' = [fs1 EXCEPT ![fname] = r.db]
              /\ last' = StorageOp("_init_constraint", c[1], c[2], r, <<>>)
    /\ UNCHANGED <<conn_info, meta, tags, unique, group_name, map_vlayer,
                   qgroups, qnode, tree_root>>
    /\ NetUnchanged

NextStorage == InitExtLayer \/ InitConstraint

SpecStorage == Init /\ [][NextStorage]_vars

\* The statements of a migration of the table name as OGR wrote it, in the
\* order of layer.py:283-295
ExpectedStatements(name, wkb) ==
    << <<"PRAGMA foreign_keys = '0'">>,
       <<"BEGIN TRANSACTION">>,
       [MigratedTable(name, wkb).sql EXCEPT ![2] = "tmp_" \o name],
       <<"PRAGMA defer_foreign_keys = '1'">>,
       <<"DROP TABLE", name>>,
       <<"ALTER TABLE", "tmp_" \o name, "RENAME TO", name>>,
       <<"PRAGMA defer_foreign_keys = '0'">> >>
    \o [i \in 1..Len(OgrAux(name, wkb)) |-> OgrAux(name, wkb)[i].sql]
    \o << <<"COMMIT">>, <<"PRAGMA foreign_keys = '1'">> >>

LastStorageOp == last.op \in {"_init_ext_layer", "_init_constraint"}

\* C17: the statements a migration has run are, in this order: foreign keys
\* off, begin transaction, create the renamed table with the constraint, defer
\* foreign keys, drop the original table, rename the temporary table, deferred
\* checking off, every other captured catalog statement verbatim, commit,
\* foreign keys on.  A failed migration has run a proper beginning of that
\* list, a successful one all of it.
C17_StatementOrder ==
    (LastStorageOp /\ last.phase # "not run") =>
        LET expected == ExpectedStatements(LastTable, MemoryLayerWkbType(last.geom_str))
        IN  /\ Len(last.executed) <= Len(expected)
            /\ last.executed = SubSeq(expected, 1, Len(last.executed))
            /\ last.err = "ok" <=> last.executed = expected

\* C17 witness: a migration of a table with an index has failed after the
\* index was re-created and before the commit
C17_Witness ==
    /\ LastStorageOp
    /\ last.err = "sqlite3.Error"
    /\ Len(last.executed) = 8
    /\ last.executed[8][1] = "CREATE INDEX"

\* C18: the table is written first in CreateOrOverwriteLayer mode;
\* CreateOrOverwriteFile is tried once, and only after the first write ended
\* with ErrCreateDataSource; any other error of the first write and any error
\* of the second is raised, and then no migration statement is run.
C18_WriteFallback ==
    last.op = "_init_ext_layer" =>
        LET n == Len(last.attempts)
        IN  /\ n \in {1, 2}
            /\ last.attempts[1][1] = "CreateOrOverwriteLayer"
            /\ n = 2 <=> last.attempts[1][2] = "ErrCreateDataSource"
            /\ n = 2 => last.attempts[2][1] = "CreateOrOverwriteFile"
            /\ IF last.attempts[n][2] # "NoError"
               THEN /\ last.err = last.attempts[n][2]
                    /\ last.phase = "not run"
                    /\ last.executed = <<>>
               ELSE /\ last.phase # "not run"
                    /\ last.err \in {"ok", "sqlite3.Error"}

\* C18 witness: the second write, made after ErrCreateDataSource, has failed
C18_Witness ==
    /\ last.op = "_init_ext_layer"
    /\ Len(last.attempts) = 2
    /\ last.attempts[2][2] = "ErrCreateLayer"
    /\ last.err = "ErrCreateLayer"

\* C19: a migration that finds no catalog entry for the table fails with
\* "No layer found in GPKG" having run no statement of the migration, no DDL
\* and no BEGIN, and leaves the backing file as it was.
C19_NoTableFound ==
    [][ (last'.op = "_init_constraint" /\ last'.err = "No layer found in GPKG") =>
          /\ last'.executed = <<>>
          /\ last'.phase = "not run"
          /\ StoreFile(meta, tags, unique) \in DOMAIN files => files' = files
      ]_vars

\* C19 witness: the migration was asked for a table missing from a file that
\* holds another table
C19_Witness ==
    /\ last.op = "_init_constraint"
    /\ last.err = "No layer found in GPKG"
    /\ LastTable \notin DOMAIN StoreDb
    /\ DOMAIN StoreDb # {}

----------------------------------------------------------------------------
(* Properties of add_ext_layer on partitions that exist *)

\* the table behind a partition in the files fs: <<table>>, <<>> when gone
TableOf(fs, vlayer) ==
    IF vlayer.source[1] \in DOMAIN fs /\ vlayer.source[2] \in DOMAIN fs[vlayer.source[1]]
    THEN <<fs[vlayer.source[1]][vlayer.source[2]]>>
    ELSE <<>>

\* C14: add_ext_layer(kind, idx) with idx below the number of partitions of
\* the kind returns the partition registered there and creates nothing: the
\* partition map and the files, with the partition's table and its rows, are
\* as before.
C14_ExistingPartitionReturned ==
    [][ (last'.op = "add_ext_layer"
         /\ has_layer(map_vlayer, last'.geom_str, last'.idx)) =>
          /\ last'.err = "ok"
          /\ map_vlayer' = map_vlayer
          /\ files' = files ]_vars

StorageErrors == {"ErrCreateDataSource", "ErrCreateLayer", "sqlite3.Error",
                  "No layer found in GPKG"}

\* C15: an add_ext_layer call for one kind that fails in the storage leaves
\* the partitions of every other kind as they were: the same registry entries,
\* backed by the same tables with the same rows, also when the second write,
\* in CreateOrOverwriteFile mode, was made.
C15_OtherKindsUnaffected ==
    [][ (last'.op = "add_ext_layer" /\ last'.err \in StorageErrors) =>
          \A k \in (Kinds \cup DOMAIN map_vlayer) \ {last'.geom_str} :
             /\ Partitions(map_vlayer', k) = Partitions(map_vlayer, k)
             /\ \A i \in 1..Len(Partitions(map_vlayer, k)) :
                   TableOf(files', map_vlayer[k][i]) = TableOf(files, map_vlayer[k][i])
      ]_vars

----------------------------------------------------------------------------
(* The display groups of a store filled with features of several kinds *)

\* the geometry kinds partitions are created for, PyNone: no geometry
GroupKinds == {"Point", "LineString", "Polygon", PyNone}

\* Partitions, MaxLayers at most, are created for the kinds in any order, on a
\* storage that does not fail
NextGroups ==
    \/ \E k \in GroupKinds, i \in 0..MaxIdx :
          /\ Len(GroupLayers(qnode.groups)) < MaxLayers
          /\ AddExtLayerWith(k, i, QuietEnvironment(files, StoreFile(meta, tags, unique)))
          /\ NetUnchanged
    \/ AddEmptyGroup /\ NetUnchanged

SpecGroups == InitProject /\ [][NextGroups]_vars

\* C20: the display groups under the main group stand in the order Point,
\* Line, Polygon, Unknown geometry, No geometry, each kind's group once,
\* whatever the order the partitions were created in.
C20_GroupOrder ==
    \A i, j \in 1..Len(qnode.groups) :
        i < j => GEOM_ORDER(qnode.groups[i].name) < GEOM_ORDER(qnode.groups[j].name)

----------------------------------------------------------------------------
(* The hub client: spaces and features written (network.py:65-108, 148-187) *)

\* net_utils.make_payload / make_buffer / prepare_new_space_info applied to x
make_payload(x) == <<"make_payload", x>>

make_buffer(x) == <<"make_buffer", x>>

prepare_new_space_info(x) == <<"prepare_new_space_info", x>>

\* the request sent with a method and a body, and the properties set on the
\* reply (the _pre_send_request / network call / _post_send_request sequence
\* of network.py:78-81, 89-94, 103-106, 164-168, 182-185)
SendWith(method, body, ci, endpoint, kw_request, kw_prop) ==
    _post_send_request(
        [body |-> body]
        @@ NetworkSend(method, _pre_send_request(ci, endpoint, kw_request)),
        ci, kw_prop)

\* network.py:65-69
list_spaces(ci) ==
    _send_request(ci, "/spaces", ("includeRights" :> "true"),
                  ("reply_tag" :> "spaces"))

\* network.py:71-82
add_space(ci, space_info) ==
    SendWith("POST", make_payload(prepare_new_space_info(space_info)), ci,
             "/spaces", ("req_type" :> "json"), ("reply_tag" :> "add_space"))

\* network.py:83-95
edit_space(ci, space_info) ==
    SendWith("PATCH", make_buffer(space_info), ci,
             "/spaces/{space_id}", ("req_type" :> "json"),
             ("reply_tag" :> "edit_space"))

\* network.py:97-108
del_space(ci) ==
    SendWith("DELETE", <<>>, ci,
             "/spaces/{space_id}", EmptyMap, ("reply_tag" :> "del_space"))

\* network.py:160: kw["addTags"] = kw["tags"] when kw has tags
WithAddTags(kw) ==
    IF "tags" \in DOMAIN kw THEN Update(kw, ("addTags" :> kw["tags"])) ELSE kw

\* network.py:156-171: send_request is network.post or network.put
_add_features(ci, added_feat, send_request, kw) ==
    SendWith(send_request, make_payload(added_feat), ci,
             "/spaces/{space_id}/features",
             Update(("req_type" :> "geo"), WithAddTags(kw)),
             Update(("reply_tag" :> "add_feat"), WithAddTags(kw)))

\* network.py:148-150
add_features(ci, added_feat, kw) == _add_features(ci, added_feat, "POST", kw)

\* network.py:151-152
modify_features(ci, added_feat, kw) == add_features(ci, added_feat, kw)

\* network.py:153-155
replace_features(ci, added_feat, kw) == _add_features(ci, added_feat, "PUT", kw)

RECURSIVE JoinComma(_)
\* ",".join(str(i) for i in removed_feat)
JoinComma(ids) ==
    IF Len(ids) = 0 THEN ""
    ELSE IF Len(ids) = 1 THEN ids[1]
    ELSE ids[1] \o "," \o JoinComma(Tail(ids))

\* network.py:172-187
del_features(ci, removed_feat, kw) ==
    SendWith("DELETE", <<>>, ci,
             "/spaces/{space_id}/features",
             Update(kw, ("id" :> JoinComma(removed_feat))),
             ("reply_tag" :> "del_feat"))

----------------------------------------------------------------------------
(* The hub client in use: features added, replaced and deleted *)

\* the id lists hold MaxIds ids at most
MaxIds == 2

FeatExtraKeys == {"tags", "addTags", "mode"}

FeatExtraValue == [tags |-> "t1", addTags |-> "t0", mode |-> "m"]

\* the extra keyword arguments of add_features and its kin
FeatExtras == {[k \in ks |-> FeatExtraValue[k]] : ks \in SUBSET FeatExtraKeys}

\* the extra keyword arguments of del_features
DelExtras == {[k \in ks |-> FeatExtraValue[k]] : ks \in SUBSET {"mode"}}

\* id lists without repetition, the empty one among them
IdLists ==
    {ids \in UNION {[1..n -> FeatureIds] : n \in 0..MaxIds} :
        \A i, j \in 1..Len(ids) : ids[i] = ids[j] => i = j}

TheFeatures == <<"FeatureCollection">>

\* a call recorded with its reply and the argument it was given
FeatCall(op, reply, extra, arg) ==
    /\ Len(replies) < MaxReplies
    /\ replies' = Append(replies, [arg |-> arg] @@ Issued(reply, op, extra, now))
    /\ UNCHANGED <<timers, now, pager>>
    /\ StoreUnchanged

AddFeatures ==
    \E kw \in FeatExtras :
        FeatCall("add_features", add_features(conn_info, TheFeatures, kw),
                 kw, TheFeatures)

ModifyFeatures ==
    \E kw \in FeatExtras :
        FeatCall("modify_features", modify_features(conn_info, TheFeatures, kw),
                 kw, TheFeatures)

ReplaceFeatures ==
    \E kw \in FeatExtras :
        FeatCall("replace_features", replace_features(conn_info, TheFeatures, kw),
                 kw, TheFeatures)

DelFeatures ==
    \E kw \in DelExtras, ids \in IdLists :
        FeatCall("del_features", del_features(conn_info, ids, kw), kw, ids)

NextFeat ==
    \/ AddFeatures
    \/ ModifyFeatures
    \/ ReplaceFeatures
    \/ DelFeatures

SpecFeat == Init /\ [][NextFeat]_vars

\* C12: del_features is never sent for an empty id list; for a list that is
\* not empty it sends one DELETE to /spaces/{space_id}/features whose query
\* holds id = the ids joined by commas in the order given.
C12_DeleteNeedsIds ==
    \A i \in 1..Len(replies) :
        replies[i].op = "del_features" =>
            /\ replies[i].arg # <<>>
            /\ replies[i].method = "DELETE"
            /\ replies[i].endpoint = "/spaces/{space_id}/features"
            /\ "id" \in DOMAIN replies[i].query
            /\ replies[i].query["id"] = JoinComma(replies[i].arg)

AddOps == {"add_features", "modify_features", "replace_features"}

\* C13: in add_features, modify_features and replace_features a tags key of
\* extra is renamed to addTags: the query holds addTags with the value of
\* tags and no tags key, and every other key of extra as given.
C13_TagsRenamed ==
    \A i \in 1..Len(replies) :
        replies[i].op \in AddOps =>
            /\ "tags" \in DOMAIN replies[i].extra =>
                  /\ "addTags" \in DOMAIN replies[i].query
                  /\ replies[i].query["addTags"] = replies[i].extra["tags"]
                  /\ "tags" \notin DOMAIN replies[i].query
            /\ \A k \in (DOMAIN replies[i].extra) \ {"tags", "addTags"} :
                  /\ k \in DOMAIN replies[i].query
                  /\ replies[i].query[k] = replies[i].extra[k]
            /\ ("addTags" \in DOMAIN replies[i].extra
                /\ "tags" \notin DOMAIN replies[i].extra) =>
                  /\ "addTags" \in DOMAIN replies[i].query
                  /\ replies[i].query["addTags"] = replies[i].extra["addTags"]

----------------------------------------------------------------------------
(* The hub client in use: every operation, on two connections *)

OtherConnInfo == [server |-> "hub", space_id |-> "xyz", token |-> "tok2"]

ConnInfos == {TheConnInfo, OtherConnInfo}

TheSpaceInfo == [title |-> "T"]

\* the calls of the operations on the connection ci, each with the reply it
\* returns and the timers it installs; id is the number of the reply, t the
\* time of the call
HubCalls(ci, id, t) ==
    { [op |-> "get_statistics"] @@ get_statistics(ci, id, t),
      [op |-> "get_count"] @@ get_count(ci, id, t),
      [op |-> "get_meta"] @@ get_meta(ci, id, t) }
    \cup
    { [op |-> c[1], reply |-> c[2], timers |-> {}] : c \in
        { <<"list_spaces", list_spaces(ci)>>,
          <<"add_space", add_space(ci, TheSpaceInfo)>>,
          <<"edit_space", edit_space(ci, TheSpaceInfo)>>,
          <<"del_space", del_space(ci)>>,
          <<"load_features_bbox", load_features_bbox(ci, TheBbox, ("limit" :> "2"))>>,
          <<"load_features_tile", load_features_tile(ci, "0", "quadkey", ("limit" :> "2"))>>,
          <<"load_features_iterate", load_features_iterate(ci, ("limit" :> "2"))>>,
          <<"load_features_search", load_features_search(ci, ("limit" :> "2"))>>,
          <<"add_features", add_features(ci, TheFeatures, EmptyMap)>>,
          <<"modify_features", modify_features(ci, TheFeatures, EmptyMap)>>,
          <<"replace_features", replace_features(ci, TheFeatures, EmptyMap)>>,
          <<"del_features", del_features(ci, <<"f1">>, EmptyMap)>> } }

\* an operation is called on one of the connections
HubIssue ==
    /\ Len(replies) < MaxReplies
    /\ \E ci \in ConnInfos :
       \E c \in HubCalls(ci, Len(replies) + 1, now) :
          /\ replies' = Append(replies,
                               [ci |-> ci] @@ Issued(c.reply, c.op, EmptyMap, now))
          /\ timers' = timers \cup c.timers
    /\ UNCHANGED <<now, pager>>
    /\ StoreUnchanged

NextHub == HubIssue \/ Finish

SpecHub == Init /\ [][NextHub]_vars

\* the reply_tag each operation gives its replies
ReplyTag(op) ==
    CASE op = "get_statistics" -> "statistics"
      [] op = "get_count" -> "count"
      [] op = "get_meta" -> "space_meta"
      [] op = "list_spaces" -> "spaces"
      [] op = "add_space" -> "add_space"
      [] op = "edit_space" -> "edit_space"
      [] op = "del_space" -> "del_space"
      [] op \in LoadOps -> Family(op)
      [] op \in AddOps -> "add_feat"
      [] op = "del_features" -> "del_feat"

\* C16: every reply, in flight or completed, in whatever order the calls were
\* made and the replies completed, carries in its own properties the
\* connection it was issued for and the reply_tag of the operation that
\* issued it.
C16_ContextOnReply ==
    \A i \in 1..Len(replies) :
        /\ "conn_info" \in DOMAIN replies[i].props
        /\ replies[i].props["conn_info"] = replies[i].ci
        /\ "reply_tag" \in DOMAIN replies[i].props
        /\ replies[i].props["reply_tag"] = ReplyTag(replies[i].op)

\* C16 witness: two calls of different operations on different connections,
\* the second completed while the first is in flight
C16_Witness ==
    /\ Len(replies) >= 2
    /\ replies[1].ci # replies[2].ci
    /\ replies[1].op # replies[2].op
    /\ replies[1].state = "running"
    /\ replies[2].state = "finished"

----------------------------------------------------------------------------
(* Properties of add_ext_layer rejected by the index check *)

\* C21: an add_ext_layer(kind, idx) call that fails on the index check, idx
\* not being the number of partitions of the kind, has touched nothing in the
\* storage: no table <kind>_<idx> is created and no table is overwritten or
\* migrated, the files are as before the call.
C21_IndexGapLeavesStorage ==
    [][ (last'.op = "add_ext_layer" /\ last'.err = "AssertionError") =>
          files' = files ]_vars

====
